---- MODULE Spec2Model ----
(***************************************************************************)
(* Model of mcp_server_git/server.py: the startup check of serve(), the    *)
(* call_tool dispatcher with its twelve handlers, and list_repos.          *)
(*                                                                         *)
(* The version-control engine (GitPython over git) is not part of the      *)
(* source; the handlers' calls into it are modelled by what the engine     *)
(* does on a working copy that holds one tracked path: a commit list, the  *)
(* local branches, the symbolic HEAD, the index and the working tree.      *)
(***************************************************************************)
EXTENDS Integers, Sequences, FiniteSets, TLC

\* ------------------------------------------------------------------ bounds
\* Commits the callers may make in a behaviour of Spec, where the second path
\* stays unusable, and in a behaviour of SpecWide, where both paths evolve.
MaxCommits == 2
MaxWideCommits == 1

\* GitLog.max_count / arguments.get("max_count", 10)
DefaultMaxCount == 10

\* ------------------------------------------------------------- input sets
Paths == {"p1", "p2"}
NoneVal == "None"
\* Candidates for the command-line repository argument of serve().
StartupArgs == {NoneVal, "p1"}
\* Content of the one tracked path "file.txt": 0 = no such file, 1 = the file.
Contents == {0, 1}
FileName == "file.txt"
Messages == {"m1", "m2"}
\* The branch git creates on init, and the names callers pass.
DefaultBranch == "master"
BranchNames == {"master", "feature"}
\* Values callers pass as max_count (the key may also be absent).
MaxCountArgs == {0, 1, 2}
\* Lists callers pass as files, and revisions they pass to git_show.
FileLists == {<<>>, <<FileName>>, <<"nofile.txt">>}
Revisions == {"HEAD", "HEAD^{x}", "deadbeef"}
UnknownTool == "git_frobnicate"

\* GitTools (the enum's values)
GitTools ==
    {"git_status", "git_diff_unstaged", "git_diff_staged", "git_diff",
     "git_commit", "git_add", "git_reset", "git_log", "git_create_branch",
     "git_checkout", "git_show", "git_init"}

VARIABLES
    pc,          \* serve(): "start", "serving", "returned", "crashed"
    repository,  \* serve()'s argument: a path or NoneVal
    registered,  \* whether the handlers have been registered on the server
    logged,      \* what the startup check logged: "none", "info", "error"
    fs,          \* the file system: for each path, what lies there
    response,    \* the request being answered, with what the handler gave
                 \* the transport; NoResponse between requests
    hist,        \* history: what the last request did (used to state properties)
    budget       \* commits the callers may still make (the model's bound)

vars == <<pc, repository, registered, logged, fs, response, hist, budget>>

\* ------------------------------------------------------------ file system
\* kind: "missing"  no such path
\*       "dir"      a directory that is not a repository root
\*       "repo"     a repository root
\*       "unusable" exists, but the engine fails on it with an error that is
\*                  neither InvalidGitRepositoryError nor NoSuchPathError
NoRefs == [b \in BranchNames |-> 0]

EmptyAt(kind) ==
    [kind |-> kind, wt |-> 0, index |-> 0, head |-> DefaultBranch,
     refs |-> NoRefs, commits |-> <<>>]

\* The commit HEAD resolves to; 0 while the current branch is unborn.
HeadCommit(r) == r.refs[r.head]
TreeOf(r, c) == IF c = 0 THEN 0 ELSE r.commits[c].tree

\* Mutant of RepoOpen: a missing path is reported like a directory that is no
\* repository (the constructor's existence check left out).
RepoOpen_NoExistenceCheck(d) ==
    CASE d.kind = "repo"     -> "ok"
      [] d.kind = "dir"      -> "InvalidGitRepositoryError"
      [] d.kind = "missing"  -> "InvalidGitRepositoryError"
      [] d.kind = "unusable" -> "Exception"

\* git.Repo(path): which exception, if any, the constructor ends in.
RepoOpen(d) ==
    CASE d.kind = "repo"     -> "ok"
      [] d.kind = "dir"      -> "InvalidGitRepositoryError"
      [] d.kind = "missing"  -> "NoSuchPathError"
      [] d.kind = "unusable" -> "Exception"

\* What a handler hands back: a text, or an exception that leaves it; and the
\* repository as the engine left it.
Text(t, r) == [raised |-> FALSE, text |-> t, repo |-> r]
Raise(e, r) == [raised |-> TRUE, text |-> [tag |-> e], repo |-> r]

\* ---------------------------------------------------------------- handlers
\* repo.git.status(): the branch, and whether anything is staged, changed in
\* the working tree, or untracked.
StatusText(repo) ==
    [tag |-> "status", branch |-> repo.head,
     staged |-> repo.index # TreeOf(repo, HeadCommit(repo)),
     unstaged |-> repo.index # 0 /\ repo.wt # repo.index,
     untracked |-> repo.index = 0 /\ repo.wt # 0]

git_status(repo) == Text(StatusText(repo), repo)

git_diff_unstaged(repo) ==
    Text([tag |-> "diff", a |-> repo.index, b |-> repo.wt], repo)

git_diff_staged(repo) ==
    Text([tag |-> "diff", a |-> TreeOf(repo, HeadCommit(repo)), b |-> repo.index],
         repo)

\* repo.git.diff(target): the engine reports an unknown revision as a
\* GitCommandError, which the handler turns into text.
git_diff(repo, target) ==
    IF repo.refs[target] = 0
    THEN Text([tag |-> "Error getting diff with", target |-> target], repo)
    ELSE Text([tag |-> "diff", a |-> TreeOf(repo, repo.refs[target]),
               b |-> repo.wt], repo)

\* repo.index.commit(message): a commit of the index on top of HEAD's commit
\* (a root commit while the branch is unborn); the current branch moves to it.
git_commit(repo, message) ==
    LET n == Len(repo.commits) + 1
        c == [parent |-> HeadCommit(repo), tree |-> repo.index,
              message |-> message]
    IN Text([tag |-> "Changes committed successfully with hash", hexsha |-> n],
            [repo EXCEPT !.commits = Append(@, c), !.refs[repo.head] = n])

\* repo.index.add(files): a path that is not in the working tree ends the call
\* with FileNotFoundError, which nothing catches.
git_add(repo, files) ==
    IF \E i \in 1..Len(files) : files[i] # FileName \/ repo.wt = 0
    THEN Raise("FileNotFoundError", repo)
    ELSE Text([tag |-> "Files staged successfully"],
              IF files = <<>> THEN repo ELSE [repo EXCEPT !.index = repo.wt])

\* repo.index.reset(): reads HEAD's tree into the index; with no commit yet the
\* engine's read-tree fails with GitCommandError, which nothing catches.
git_reset(repo) ==
    IF HeadCommit(repo) = 0
    THEN Raise("GitCommandError", repo)
    ELSE Text([tag |-> "All staged changes reset"],
              [repo EXCEPT !.index = TreeOf(repo, HeadCommit(repo))])

\* repo.iter_commits(max_count): HEAD's commit and its ancestors, newest first,
\* cut after max_count entries.
RECURSIVE Ancestry(_, _)
Ancestry(repo, c) ==
    IF c = 0 THEN <<>> ELSE <<c>> \o Ancestry(repo, repo.commits[c].parent)

Take(s, n) == SubSeq(s, 1, IF n < Len(s) THEN n ELSE Len(s))

\* Mutant of iter_commits: the ancestry oldest first.
iter_commits_OldestFirst(repo, max_count) ==
    LET a == Ancestry(repo, HeadCommit(repo))
    IN Take([i \in 1..Len(a) |-> a[Len(a) + 1 - i]], max_count)

iter_commits(repo, max_count) == Take(Ancestry(repo, HeadCommit(repo)), max_count)

LogEntry(repo, c) == [hexsha |-> c, message |-> repo.commits[c].message]

\* With no commit yet, repo.head.commit raises ValueError, which the handler's
\* except clause (GitCommandError) does not catch.
git_log(repo, max_count) ==
    IF HeadCommit(repo) = 0
    THEN Raise("ValueError", repo)
    ELSE LET commits == iter_commits(repo, max_count)
         IN Text([tag |-> "log",
                  entries |-> [i \in 1..Len(commits) |-> LogEntry(repo, commits[i])]],
                 repo)

\* repo.create_head(branch_name, base): the base is resolved to a commit; an
\* existing branch_name is an error unless it already points there.
create_head(repo, branch_name, base) ==
    LET target == repo.refs[base] IN
    IF target = 0 THEN Raise("BadName", repo)
    ELSE IF repo.refs[branch_name] # 0 /\ repo.refs[branch_name] # target
    THEN Raise("OSError", repo)
    ELSE Text([tag |-> "Created branch", branch |-> branch_name, base |-> base],
              [repo EXCEPT !.refs[branch_name] = target])

\* Mutant of git_create_branch: base_branch is ignored.
git_create_branch_IgnoresBase(repo, branch_name, base_branch) ==
    create_head(repo, branch_name, repo.head)

\* repo.refs[base_branch] raises IndexError for a name that is no reference;
\* repo.active_branch is the branch HEAD names.
git_create_branch(repo, branch_name, base_branch) ==
    IF base_branch # NoneVal
    THEN IF repo.refs[base_branch] = 0
         THEN Raise("IndexError", repo)
         ELSE create_head(repo, branch_name, base_branch)
    ELSE create_head(repo, branch_name, repo.head)

\* What "git checkout <branch>" does to the one tracked path, given its content
\* in HEAD's tree (h), in the branch's tree (m), in the index (i) and in the
\* working tree (w): <<ok, index, working tree>>.
CheckoutFile(h, m, i, w) ==
    IF h = m THEN <<TRUE, i, w>>
    ELSE IF i = h
         THEN IF w = i \/ (w = 0 /\ i # 0) THEN <<TRUE, m, m>> ELSE <<FALSE, i, w>>
    ELSE IF i = m /\ (i # 0 \/ w = 0) THEN <<TRUE, i, w>>
    ELSE <<FALSE, i, w>>

\* repo.git.checkout(branch_name): a GitCommandError (no such branch, or local
\* changes that the switch would overwrite) leaves the handler uncaught.
git_checkout(repo, branch_name) ==
    IF repo.refs[branch_name] = 0 THEN Raise("GitCommandError", repo)
    ELSE LET co == CheckoutFile(TreeOf(repo, HeadCommit(repo)),
                                TreeOf(repo, repo.refs[branch_name]),
                                repo.index, repo.wt)
         IN IF ~co[1] THEN Raise("GitCommandError", repo)
            ELSE Text([tag |-> "Switched to branch", branch |-> branch_name],
                      [repo EXCEPT !.head = branch_name, !.index = co[2],
                                   !.wt = co[3]])

\* repo.commit(revision): "HEAD" resolves to HEAD's commit; a name that resolves
\* to nothing raises BadName (not caught); a malformed revision raises
\* ValueError (caught). The diff is against the first parent, or against the
\* empty tree for a root commit.
git_show(repo, revision) ==
    IF revision = "HEAD^{x}"
    THEN Text([tag |-> "Error showing commit", revision |-> revision], repo)
    ELSE IF revision # "HEAD" \/ HeadCommit(repo) = 0
    THEN Raise("BadName", repo)
    ELSE LET c == HeadCommit(repo) IN
         Text([tag |-> "show", hexsha |-> c,
               message |-> repo.commits[c].message,
               a |-> TreeOf(repo, repo.commits[c].parent),
               b |-> repo.commits[c].tree], repo)

\* Mutant of git_init: the failure is not caught.
git_init_Uncaught(repo_path, f) ==
    LET d == f[repo_path] IN
    IF d.kind = "unusable" THEN Raise("OSError", d)
    ELSE Text([tag |-> "Initialized empty Git repository in",
               git_dir |-> repo_path],
              IF d.kind = "repo" THEN d ELSE [EmptyAt("repo") EXCEPT !.wt = d.wt])

\* Mutant of git_init: the directory is made, the repository is not.
git_init_MkdirOnly(repo_path, f) ==
    LET d == f[repo_path] IN
    CASE d.kind = "repo" ->
            Text([tag |-> "Initialized empty Git repository in",
                  git_dir |-> repo_path], d)
      [] d.kind \in {"dir", "missing"} ->
            Text([tag |-> "Initialized empty Git repository in",
                  git_dir |-> repo_path], [EmptyAt("dir") EXCEPT !.wt = d.wt])
      [] d.kind = "unusable" ->
            Text([tag |-> "Error initializing repository"], d)

\* git.Repo.init(path, mkdir=True) on what lies at the path: a missing path is
\* created, a directory becomes a repository with its files untouched, an
\* existing repository is left as it is; any failure becomes text.
git_init(repo_path, f) ==
    LET d == f[repo_path] IN
    CASE d.kind = "repo" ->
            Text([tag |-> "Initialized empty Git repository in",
                  git_dir |-> repo_path], d)
      [] d.kind \in {"dir", "missing"} ->
            Text([tag |-> "Initialized empty Git repository in",
                  git_dir |-> repo_path], [EmptyAt("repo") EXCEPT !.wt = d.wt])
      [] d.kind = "unusable" ->
            Text([tag |-> "Error initializing repository"], d)

\* -------------------------------------------------------------- dispatcher
\* The argument payloads a caller sends with each tool name; every one holds
\* repo_path, and optional keys are present or absent.
ArgumentsFor(name, p) ==
    CASE name = "git_diff" ->
            {[repo_path |-> p, target |-> t] : t \in BranchNames}
      [] name = "git_commit" ->
            {[repo_path |-> p, message |-> m] : m \in Messages}
      [] name = "git_add" ->
            {[repo_path |-> p, files |-> fl] : fl \in FileLists}
      [] name = "git_log" ->
            {[repo_path |-> p]}
            \cup {[repo_path |-> p, max_count |-> n] : n \in MaxCountArgs}
      [] name = "git_create_branch" ->
            {[repo_path |-> p, branch_name |-> b] : b \in BranchNames}
            \cup {[repo_path |-> p, branch_name |-> b, base_branch |-> bb] :
                    b \in BranchNames, bb \in BranchNames}
      [] name = "git_checkout" ->
            {[repo_path |-> p, branch_name |-> b] : b \in BranchNames}
      [] name = "git_show" ->
            {[repo_path |-> p, revision |-> r] : r \in Revisions}
      [] OTHER -> {[repo_path |-> p]}

\* arguments.get(key, default)
Get(arguments, key, default) ==
    IF key \in DOMAIN arguments THEN arguments[key] ELSE default

\* Mutant of unknown_tool: the unknown name is answered with a text.
unknown_tool_AsText(name, repo) == Text([tag |-> "Unknown tool"], repo)

\* The else branch: raise ValueError(f"Unknown tool: {name}")
unknown_tool(name, repo) == Raise("ValueError: Unknown tool", repo)

\* The if/elif chain of call_tool after the repository has been opened.
Dispatch(name, arguments, repo) ==
    CASE name = "git_status" -> git_status(repo)
      [] name = "git_diff_unstaged" -> git_diff_unstaged(repo)
      [] name = "git_diff_staged" -> git_diff_staged(repo)
      [] name = "git_diff" -> git_diff(repo, arguments.target)
      [] name = "git_commit" -> git_commit(repo, arguments.message)
      [] name = "git_add" -> git_add(repo, arguments.files)
      [] name = "git_reset" -> git_reset(repo)
      [] name = "git_log" ->
            git_log(repo, Get(arguments, "max_count", DefaultMaxCount))
      [] name = "git_create_branch" ->
            git_create_branch(repo, arguments.branch_name,
                              Get(arguments, "base_branch", NoneVal))
      [] name = "git_checkout" -> git_checkout(repo, arguments.branch_name)
      [] name = "git_show" -> git_show(repo, arguments.revision)
      [] OTHER -> unknown_tool(name, repo)

\* What an invocation gives the transport (one text item, or an exception),
\* the file system it leaves, and the handler it ran ("none" if none).
Reply(out, f, p, handler) ==
    [raised |-> out.raised, text |-> out.text,
     fs |-> [f EXCEPT ![p] = out.repo], handler |-> handler]

\* Mutant of resolve_path: the first path is used whatever the request names.
resolve_path_Fixed(arguments) == "p1"

\* repo_path = Path(arguments["repo_path"])
resolve_path(arguments) == arguments.repo_path

call_tool(name, arguments, f) ==
    LET repo_path == resolve_path(arguments)
        d == f[repo_path]
        opened == RepoOpen(d)
    IN IF name = "git_init"
       THEN Reply(git_init(repo_path, f), f, repo_path, "git_init")
       ELSE CASE opened = "InvalidGitRepositoryError" ->
                    Reply(Text([tag |-> "not a valid Git repository root",
                                path |-> repo_path], d), f, repo_path, "none")
              [] opened = "NoSuchPathError" ->
                    Reply(Text([tag |-> "does not exist", path |-> repo_path], d),
                          f, repo_path, "none")
              [] opened = "Exception" ->
                    Reply(Text([tag |-> "Error accessing repository"], d),
                          f, repo_path, "none")
              [] opened = "ok" ->
                    Reply(Dispatch(name, arguments, d), f, repo_path,
                          IF name \in GitTools THEN name ELSE "none")

\* ------------------------------------------------------------------ startup
\* serve() up to server.run: the check of the repository argument, then the
\* registration of the handlers and the request loop.
serve(repo_arg, f) ==
    IF repo_arg # NoneVal
    THEN LET opened == RepoOpen(f[repo_arg]) IN
         CASE opened = "ok" ->
                [pc |-> "serving", registered |-> TRUE, logged |-> "info"]
           [] opened = "InvalidGitRepositoryError" ->
                [pc |-> "returned", registered |-> FALSE, logged |-> "error"]
           [] OTHER ->
                [pc |-> "crashed", registered |-> FALSE, logged |-> "none"]
    ELSE [pc |-> "serving", registered |-> TRUE, logged |-> "none"]

\* ---------------------------------------------------------------- discovery
\* by_roots' loop over the roots the client lists: a valid repository is
\* appended, InvalidGitRepositoryError skips the root, any other exception
\* leaves the loop.
RECURSIVE roots_loop(_, _, _)
roots_loop(roots, f, repo_paths) ==
    IF roots = <<>> THEN [raised |-> FALSE, text |-> [tag |-> "repos",
                                                      repos |-> repo_paths]]
    ELSE LET opened == RepoOpen(f[Head(roots)]) IN
         CASE opened = "ok" ->
                roots_loop(Tail(roots), f, Append(repo_paths, Head(roots)))
           [] opened = "InvalidGitRepositoryError" ->
                roots_loop(Tail(roots), f, repo_paths)
           [] OTHER -> [raised |-> TRUE, text |-> [tag |-> opened]]

by_roots(capable, roots, f) ==
    IF ~capable THEN [raised |-> FALSE, text |-> [tag |-> "repos", repos |-> <<>>]]
    ELSE roots_loop(roots, f, <<>>)

by_commandline(repo_arg) == IF repo_arg # NoneVal THEN <<repo_arg>> ELSE <<>>

list_repos(capable, roots, repo_arg, f) ==
    LET cmd_repos == by_commandline(repo_arg)
        root_repos == by_roots(capable, roots, f)
    IN IF root_repos.raised THEN root_repos
       ELSE [raised |-> FALSE,
             text |-> [tag |-> "repos", repos |-> root_repos.text.repos \o cmd_repos]]

\* The root lists a client advertises.
RootLists ==
    {<<>>} \cup {<<a>> : a \in Paths}
    \cup {<<a, b>> : a, b \in Paths}

\* A client either lacks the roots capability (whatever roots it has) or
\* has it and lists its roots.
Clients ==
    {[capable |-> FALSE, roots |-> <<"p1">>]}
    \cup {[capable |-> TRUE, roots |-> r] : r \in RootLists}

\* ------------------------------------------------------------ state machine
NoResponse ==
    [name |-> "none", arguments |-> [repo_path |-> NoneVal], raised |-> FALSE,
     text |-> [tag |-> "none"], handler |-> "none"]

\* History. fresh: the paths where git_init has made an empty directory a
\* repository and nothing has changed it since. pre: what lay at the named
\* path when the request in flight arrived. cur: what the request in flight
\* did, if it created a branch, staged files or committed; prev: the same for
\* the request answered just before it (nothing else having happened since).
NoEffect ==
    [tag |-> "none", path |-> NoneVal, branch |-> NoneVal, hexsha |-> 0,
     message |-> NoneVal, staged |-> FALSE]

NoPre == EmptyAt("none")

NoHist == [fresh |-> {}, pre |-> NoPre, prev |-> NoEffect, cur |-> NoEffect]

Kinds == {"missing", "dir", "repo", "unusable"}

InitCommon ==
    /\ pc = "start"
    /\ repository \in StartupArgs
    /\ registered = FALSE
    /\ logged = "none"
    /\ response = NoResponse
    /\ hist = NoHist

\* The first path is anything; the second stays unusable.
Init ==
    /\ InitCommon
    /\ fs \in {f \in [Paths -> {EmptyAt(k) : k \in Kinds}] :
                 f["p2"].kind = "unusable"}
    /\ budget = MaxCommits

\* Both paths are anything.
InitWide ==
    /\ InitCommon
    /\ fs \in [Paths -> {EmptyAt(k) : k \in Kinds}]
    /\ budget = MaxWideCommits

Serve ==
    /\ pc = "start"
    /\ LET s == serve(repository, fs) IN
         /\ pc' = s.pc
         /\ registered' = s.registered
         /\ logged' = s.logged
    /\ UNCHANGED <<repository, fs, response, hist, budget>>

Effect(name, arguments, r) ==
    LET p == arguments.repo_path IN
    IF r.raised \/ r.handler # name THEN NoEffect
    ELSE CASE name = "git_create_branch" ->
                [NoEffect EXCEPT !.tag = "created", !.path = p,
                                 !.branch = arguments.branch_name]
           [] name = "git_add" /\ arguments.files # <<>> ->
                [NoEffect EXCEPT !.tag = "added", !.path = p]
           [] name = "git_commit" ->
                [NoEffect EXCEPT !.tag = "committed", !.path = p,
                                 !.hexsha = r.text.hexsha,
                                 !.message = arguments.message,
                                 !.staged = (hist.prev.tag = "added"
                                             /\ hist.prev.path = p)]
           [] OTHER -> NoEffect

HistAfter(name, arguments, r) ==
    LET p == arguments.repo_path IN
    [fresh |->
        IF name = "git_init" /\ fs[p].kind = "dir" /\ fs[p].wt = 0
           /\ r.fs[p].kind = "repo"
        THEN hist.fresh \cup {p}
        ELSE {q \in hist.fresh : r.fs[q] = fs[q]},
     pre |-> fs[p],
     prev |-> hist.prev,
     cur |-> Effect(name, arguments, r)]

\* One request: call_tool(name, arguments) with any payload for that name.
Call(name) ==
    /\ pc = "serving"
    /\ response = NoResponse
    /\ \E p \in Paths : \E arguments \in ArgumentsFor(name, p) :
         LET r == call_tool(name, arguments, fs) IN
           /\ r.handler = "git_commit" => budget > 0
           /\ budget' = IF r.handler = "git_commit" THEN budget - 1 ELSE budget
           /\ fs' = r.fs
           /\ response' = [name |-> name, arguments |-> arguments,
                           raised |-> r.raised, text |-> r.text,
                           handler |-> r.handler]
           /\ hist' = HistAfter(name, arguments, r)
    /\ UNCHANGED <<pc, repository, registered, logged>>

ListRepos ==
    /\ pc = "serving"
    /\ response = NoResponse
    /\ \E client \in Clients :
         LET r == list_repos(client.capable, client.roots, repository, fs) IN
           response' = [name |-> "list_repos",
                        arguments |-> [repo_path |-> NoneVal,
                                       capable |-> client.capable,
                                       roots |-> client.roots],
                        raised |-> r.raised, text |-> r.text, handler |-> "none"]
    /\ hist' = [hist EXCEPT !.prev = NoEffect]
    /\ UNCHANGED <<pc, repository, registered, logged, fs, budget>>

\* server.run sends the answer (or the error) to the caller; the next request
\* is taken after that.
Deliver ==
    /\ response # NoResponse
    /\ response' = NoResponse
    /\ hist' = [hist EXCEPT !.pre = NoPre, !.prev = hist.cur, !.cur = NoEffect]
    /\ UNCHANGED <<pc, repository, registered, logged, fs, budget>>

\* The caller creates or deletes the file in a directory between requests (the
\* working tree the tools then inspect and stage).
EnvWrite ==
    /\ pc = "serving"
    /\ response = NoResponse
    /\ \E p \in Paths, c \in Contents :
         /\ fs[p].kind \in {"dir", "repo"}
         /\ c # fs[p].wt
         /\ fs' = [fs EXCEPT ![p].wt = c]
         /\ hist' = [hist EXCEPT !.fresh = @ \ {p}, !.prev = NoEffect]
    /\ UNCHANGED <<pc, repository, registered, logged, response, budget>>

Next ==
    \/ Serve
    \/ Call("git_status")
    \/ Call("git_diff_unstaged")
    \/ Call("git_diff_staged")
    \/ Call("git_diff")
    \/ Call("git_commit")
    \/ Call("git_add")
    \/ Call("git_reset")
    \/ Call("git_log")
    \/ Call("git_create_branch")
    \/ Call("git_checkout")
    \/ Call("git_show")
    \/ Call("git_init")
    \/ Call(UnknownTool)
    \/ ListRepos
    \/ Deliver
    \/ EnvWrite

Spec == Init /\ [][Next]_vars

SpecWide == InitWide /\ [][Next]_vars

\* --------------------------------------------------------------- properties
\* The request in flight, for the properties below.
Req == response.arguments
ReqPath == response.arguments.repo_path
IsTool(name) == response.name = name
OpenErrorTag(kind) ==
    CASE kind = "dir" -> "not a valid Git repository root"
      [] kind = "missing" -> "does not exist"
      [] kind = "unusable" -> "Error accessing repository"
      [] OTHER -> "none"

\* C1: for each of the twelve tool names and every payload holding repo_path,
\* call_tool returns one text item and never ends in an invocation-level
\* failure; a failure inside any handler (commit, add, reset, create-branch
\* and checkout included) is converted into text.
C1_EveryToolReturnsText ==
    response.name \in GitTools => ~response.raised

\* C2 (as claimed): with a name that is none of the twelve, the invocation
\* fails with the unknown-tool error whatever lies at repo_path: a repository
\* root, a directory that is none, or nothing.
C2_UnknownToolAlwaysRaises ==
    (IsTool(UnknownTool) /\ hist.pre.kind \in {"repo", "dir", "missing"})
        => (response.raised /\ response.text.tag = "ValueError: Unknown tool")

\* C2 (amended): with a name that is none of the twelve, the invocation fails
\* with the unknown-tool error exactly when the repository at repo_path opens;
\* when it does not open, the answer is the text of the open failure. No
\* handler runs and nothing at the path changes.
C2_UnknownToolRaisesOnceOpened ==
    IsTool(UnknownTool) =>
        /\ response.handler = "none"
        /\ fs[ReqPath] = hist.pre
        /\ hist.pre.kind = "repo" =>
              (response.raised /\ response.text.tag = "ValueError: Unknown tool")
        /\ hist.pre.kind # "repo" =>
              (~response.raised /\ response.text.tag = OpenErrorTag(hist.pre.kind))

C2_Witness ==
    IsTool(UnknownTool) /\ hist.pre.kind = "repo" /\ response.raised

\* C3: for every tool name but git_init, when the repository at repo_path
\* cannot be opened, call_tool returns one text item, raises nothing and runs
\* no handler; the text says "not a valid Git repository root" for a path that
\* exists and is no repository root, and says that the path does not exist
\* for a missing path.
C3_OpenFailureIsText ==
    (response.name \in GitTools \ {"git_init"} /\ hist.pre.kind # "repo") =>
        /\ ~response.raised
        /\ response.handler = "none"
        /\ fs[ReqPath] = hist.pre
        /\ hist.pre.kind = "dir" =>
              response.text.tag = "not a valid Git repository root"
        /\ hist.pre.kind = "missing" => response.text.tag = "does not exist"

C3_Witness ==
    /\ response.name \in GitTools \ {"git_init"}
    /\ hist.pre.kind = "missing"
    /\ ~response.raised
    /\ response.text.tag = "does not exist"

\* C4: git_init never opens the repository: whatever lies at repo_path it runs
\* the create-repository operation and returns one text item, the success
\* message naming the repository directory (the path is then a repository)
\* or a text beginning "Error initializing repository"; it raises nothing.
C4_InitNeverOpens ==
    IsTool("git_init") =>
        /\ ~response.raised
        /\ response.handler = "git_init"
        /\ hist.pre.kind \in {"missing", "dir", "repo"} =>
              /\ response.text.tag = "Initialized empty Git repository in"
              /\ response.text.git_dir = ReqPath
              /\ fs[ReqPath].kind = "repo"
        /\ hist.pre.kind = "repo" => fs[ReqPath] = hist.pre
        /\ hist.pre.kind = "unusable" =>
              /\ response.text.tag = "Error initializing repository"
              /\ fs[ReqPath] = hist.pre

C4_Witness ==
    /\ IsTool("git_init")
    /\ hist.pre.kind = "missing"
    /\ response.text.tag = "Initialized empty Git repository in"
    /\ fs[ReqPath].kind = "repo"

\* C5: an invocation changes nothing at any path but the one it names, and no
\* step changes the startup repository path.
C5_TouchesOnlyNamedPath ==
    [][/\ repository' = repository
       /\ (response' # response /\ response' # NoResponse) =>
             \A q \in Paths :
                 q # response'.arguments.repo_path => fs'[q] = fs[q]]_vars

C5_Witness ==
    /\ IsTool("git_commit")
    /\ ReqPath = "p2"
    /\ ~response.raised
    /\ fs["p2"] # hist.pre
    /\ fs["p1"].kind = "repo"
    /\ fs["p1"].index # 0
    /\ repository = "p1"

\* C6: git_log returns the commits reachable from HEAD newest first, at most
\* max_count of them (10 when max_count is absent); right after a successful
\* add of files followed by a successful commit with message m, git_log with
\* max_count = 1 returns exactly one entry, that of the new commit, with m.
C6_LogNewestFirst ==
    IsTool("git_log") =>
        LET repo == fs[ReqPath]
            mc == IF "max_count" \in DOMAIN Req THEN Req.max_count ELSE 10
            reach == Len(Ancestry(repo, HeadCommit(repo)))
            e == response.text.entries
            fresh_commit == /\ hist.prev.tag = "committed"
                            /\ hist.prev.staged
                            /\ hist.prev.path = ReqPath
            listed == ~response.raised /\ response.text.tag = "log"
        IN /\ listed =>
                /\ Len(e) = IF mc < reach THEN mc ELSE reach
                /\ Len(e) > 0 => e[1].hexsha = HeadCommit(repo)
                /\ \A i \in 1..Len(e) :
                      /\ e[i].message = repo.commits[e[i].hexsha].message
                      /\ i < Len(e) =>
                            repo.commits[e[i].hexsha].parent = e[i + 1].hexsha
           /\ fresh_commit =>
                /\ listed
                /\ mc = 1 => e = <<[hexsha |-> hist.prev.hexsha,
                                    message |-> hist.prev.message]>>

C6_Witness ==
    /\ IsTool("git_log")
    /\ hist.prev.tag = "committed"
    /\ hist.prev.staged
    /\ hist.prev.path = ReqPath
    /\ "max_count" \in DOMAIN Req
    /\ Req.max_count = 1
    /\ Len(fs[ReqPath].commits) = 2
    /\ ~response.raised
    /\ response.text.entries[1].hexsha = 2

\* What C7 says of create-branch: the new branch points at the commit of its
\* base (base_branch if given, else the checked-out branch), the checked-out
\* branch and everything else stay, and the confirmation names both.
C7_CreatePart ==
    (IsTool("git_create_branch") /\ response.handler = "git_create_branch"
     /\ ~response.raised) =>
        LET b == Req.branch_name
            base == IF "base_branch" \in DOMAIN Req THEN Req.base_branch
                    ELSE hist.pre.head
        IN /\ hist.pre.refs[base] # 0
           /\ fs[ReqPath] = [hist.pre EXCEPT !.refs[b] = hist.pre.refs[base]]
           /\ response.text.tag = "Created branch"
           /\ response.text.branch = b
           /\ response.text.base = base

\* The request in flight is the checkout of the branch that the request just
\* before it created.
CheckoutAfterCreate ==
    /\ IsTool("git_checkout")
    /\ hist.prev.tag = "created"
    /\ hist.prev.path = ReqPath
    /\ hist.prev.branch = Req.branch_name

\* C7 (as claimed): create-branch bases the new branch on base_branch, or on
\* the checked-out branch; a subsequent checkout of the new branch succeeds
\* and makes it the checked-out branch.
C7_CreateThenCheckoutSucceeds ==
    /\ C7_CreatePart
    /\ CheckoutAfterCreate =>
          (~response.raised /\ fs[ReqPath].head = Req.branch_name)

\* C7 (amended): create-branch as claimed; a subsequent checkout of the new
\* branch succeeds and makes it the checked-out branch whenever the new branch
\* is at the checked-out commit (always so without base_branch); based on a
\* branch at another commit, the checkout either switches or fails, and when
\* it fails the error propagates and nothing at the path changes.
C7_CreateThenCheckoutAtHead ==
    /\ C7_CreatePart
    /\ CheckoutAfterCreate =>
          /\ hist.pre.refs[Req.branch_name] = HeadCommit(hist.pre) =>
                ~response.raised
          /\ ~response.raised =>
                /\ fs[ReqPath].head = Req.branch_name
                /\ fs[ReqPath].refs = hist.pre.refs
          /\ response.raised =>
                /\ fs[ReqPath] = hist.pre
                /\ hist.pre.refs[Req.branch_name] # HeadCommit(hist.pre)

C7_Witness ==
    /\ CheckoutAfterCreate
    /\ ~response.raised
    /\ hist.pre.head = "master"
    /\ fs[ReqPath].head = "feature"
    /\ fs[ReqPath].refs["feature"] = fs[ReqPath].refs["master"]

\* C8: git_init on an empty directory succeeds, and a later git_status on the
\* same path, nothing having changed the path in between, opens the
\* repository and reports a clean working tree.
C8_InitThenStatusClean ==
    /\ (IsTool("git_init") /\ hist.pre.kind = "dir" /\ hist.pre.wt = 0) =>
          /\ ~response.raised
          /\ response.text.tag = "Initialized empty Git repository in"
          /\ ReqPath \in hist.fresh
    /\ (IsTool("git_status") /\ ReqPath \in hist.fresh) =>
          /\ ~response.raised
          /\ response.handler = "git_status"
          /\ response.text.tag = "status"
          /\ ~response.text.staged
          /\ ~response.text.unstaged
          /\ ~response.text.untracked

C8_Witness ==
    /\ IsTool("git_status")
    /\ ReqPath \in hist.fresh
    /\ hist.prev.tag = "none"
    /\ response.text.tag = "status"
    /\ ~response.text.untracked

\* C9: with a startup path that is invalid (a directory that is no repository,
\* or a path that does not exist) serve logs the problem and returns without
\* registering handlers or serving; with none, or a valid one, it serves.
C9_InvalidStartupPathReturns ==
    pc # "start" =>
        IF repository # NoneVal /\ fs[repository].kind \in {"dir", "missing"}
        THEN pc = "returned" /\ logged = "error" /\ ~registered
        ELSE (repository = NoneVal \/ fs[repository].kind = "repo") =>
                (pc = "serving" /\ registered)

\* C10: list_repos returns the advertised roots that are valid repositories,
\* in the order advertised, then the startup path if there is one; a root that
\* is a directory but no repository, or that does not exist, is left out and
\* discovery does not fail; without the roots capability only the startup
\* path is returned.
IsRepoRoot(q) == fs[q].kind = "repo"

C10_DiscoveryFiltersRoots ==
    (IsTool("list_repos")
     /\ \A i \in 1..Len(Req.roots) :
            fs[Req.roots[i]].kind \in {"repo", "dir", "missing"}) =>
        /\ ~response.raised
        /\ response.text.repos =
              (IF Req.capable THEN SelectSeq(Req.roots, IsRepoRoot) ELSE <<>>)
              \o (IF repository # NoneVal THEN <<repository>> ELSE <<>>)

====
